---- MODULE Spec2Model ----
(***************************************************************************)
(* A model of gostaticanalysis/codegen:                                    *)
(*   - codegen.go: Generator.ToAnalyzer, the adapter that turns a          *)
(*     Generator into an analysis.Analyzer, run by an analysis engine;     *)
(*   - codegentest/codegentest.go: Run and Golden, the test harness;       *)
(*   - singlegenerator.Main: the rewriting of os.Args.                     *)
(* Four specifications share the module: Spec (the adapter under an        *)
(* engine), SpecRun, SpecGolden (Golden on the Results of Run), SpecMain.  *)
(***************************************************************************)
EXTENDS Integers, Sequences, FiniteSets, TLC

\* ---------------------------------------------------------------- bounds
NAnalyzers == 2      \* analyzers a generator may name in Requires
MaxReq == 2          \* longest Generator.Requires
MaxUnits == 2        \* packages the engine processes one after the other

Analyzers == 1..NAnalyzers
Nil == "nil"
Range(s) == {s[j] : j \in 1..Len(s)}

\* Sequences over S of length at most n.
RECURSIVE SeqsUpTo(_, _)
SeqsUpTo(S, n) ==
  IF n = 0 THEN {<<>>}
  ELSE LET shorter == SeqsUpTo(S, n - 1)
       IN shorter \cup {Append(s, x) : s \in {t \in shorter : Len(t) = n - 1}, x \in S}

\* The elements of a set of integers, ascending.
RECURSIVE Ascending(_)
Ascending(S) ==
  IF S = {} THEN <<>>
  ELSE LET m == CHOOSE x \in S : \A y \in S : x <= y
       IN <<m>> \o Ascending(S \ {m})

\* ------------------------------------------------------------ the adapter
VARIABLES
  pc,               \* where the program is: "start", "loop", "converted"
  gRequires,        \* g.Requires: a sequence of analyzers
  aRequires,        \* each analyzer's own Requires
  failing,          \* the analyzers whose Run returns an error
  noisy,            \* the analyzers whose Run reports a diagnostic
  perIteration,     \* the build's loop variable semantics: TRUE, each iteration
                    \* of the for loop has its own i; FALSE, one i for the loop
  idx,              \* the loop's position in ToAnalyzer
  requires,         \* ToAnalyzer's local slice
  cells,            \* the variables i the closures captured: cell -> value
  heap,             \* the descriptors: pointer -> [Name, Run, Requires]
  unit,             \* the package the engine is processing
  done,             \* the engine's memo for the unit: pointer -> [res, err]
  sinkDiags,        \* per descriptor run, the diagnostics that reached the sink
  runCalls,         \* per analyzer, the invocations of its original Run (this unit)
  gRunCalls,        \* every call of g.Run: [pass, ret]
  rootInvocations   \* every invocation of the converted Run: [unit, ret]

adapterVars == <<pc, gRequires, aRequires, failing, noisy, perIteration, idx,
                 requires, cells, heap, unit, done, sinkDiags, runCalls,
                 gRunCalls, rootInvocations>>

\* Pointers to descriptors.
Orig(k) == <<"orig", k>>      \* an analyzer the generator's author wrote
Copy(i) == <<"copy", i>>      \* the copy a made in iteration i of ToAnalyzer
Root == <<"root", 0>>         \* the analyzer ToAnalyzer returns
NilPtr == <<"nil", 0>>
GenPtr == "g"                 \* the receiver g of ToAnalyzer

\* The result an analyzer's Run produces: its own ResultType's value.
ResultValue(k) == <<"result", k>>
GenErrs == {Nil, "generr"}

\* An analyzer's descriptor as its author declared it.
OrigDescriptor(k) ==
  [Name |-> <<"analyzer", k>>,
   Run |-> [kind |-> "orig", arg |-> k],
   Requires |-> [j \in 1..Len(aRequires[k]) |-> Orig(aRequires[k][j])]]

\* The original Run of analyzer k on a pass: reports through pass.Report,
\* returns its result or its error.
OrigRun(k, pass) ==
  [res |-> IF k \in failing THEN Nil ELSE ResultValue(k),
   err |-> IF k \in failing THEN <<"error", k>> ELSE Nil,
   diags |-> IF k \in noisy /\ pass.Report = "sink" THEN 1 ELSE 0,
   invoked |-> k]

\* The wrapper of codegen.go:58-61, closed over g and the variable i (cell c).
WrapperRun(c, pass) ==
  LET silenced == [pass EXCEPT !.Report = "noop"]
      target == heap[Orig(gRequires[cells[c] + 1])]
  IN OrigRun(target.Run.arg, silenced)

\* The Pass the generator's Run receives (codegen.go:69-81).
NewGenPass(pass) ==
  [Generator |-> GenPtr,
   unit |-> pass.unit,
   ResultOf |-> pass.ResultOf,
   Output |-> "output"]

\* A converted Run that swallows g.Run's error.
GenReturnSwallowed(e) == [res |-> Nil, err |-> Nil]

\* What the converted Run returns to the engine when g.Run returned e
\* (codegen.go:82).
GenReturn(e) == [res |-> Nil, err |-> e]

\* The converted Run (codegen.go:68-83) on the engine's pass, g.Run returning e:
\* the calls of g.Run it makes, and what it returns.
ConvertedRun(pass, e) ==
  [calls |-> <<[pass |-> NewGenPass(pass), ret |-> e]>>,
   ret |-> GenReturn(e)]

\* The cell iteration i's closure captures.
CellOf(i) == IF perIteration THEN i ELSE 0

\* requires := make([]*analysis.Analyzer, len(g.Requires))
ToAnalyzerBegin ==
  /\ pc = "start"
  /\ requires' = [j \in 1..Len(gRequires) |-> NilPtr]
  /\ idx' = 0
  /\ pc' = "loop"
  /\ UNCHANGED <<gRequires, aRequires, failing, noisy, perIteration, cells, heap,
                 unit, done, sinkDiags, runCalls, gRunCalls, rootInvocations>>

\* One iteration of the loop: a := *g.Requires[i]; a.Run = wrapper; requires[i] = &a
ToAnalyzerIterate ==
  /\ pc = "loop"
  /\ idx < Len(requires)
  /\ LET c == CellOf(idx)
         a == [heap[Orig(gRequires[idx + 1])] EXCEPT !.Run = [kind |-> "wrap", arg |-> c]]
     IN /\ cells' = (c :> idx) @@ cells
        /\ heap' = (Copy(idx) :> a) @@ heap
        /\ requires' = [requires EXCEPT ![idx + 1] = Copy(idx)]
  /\ idx' = idx + 1
  /\ UNCHANGED <<pc, gRequires, aRequires, failing, noisy, perIteration,
                 unit, done, sinkDiags, runCalls, gRunCalls, rootInvocations>>

\* return &analysis.Analyzer{Name, Doc, Run, RunDespiteErrors, Requires: requires}
ToAnalyzerReturn ==
  /\ pc = "loop"
  /\ idx = Len(requires)
  /\ heap' = (Root :> [Name |-> "generator",
                       Run |-> [kind |-> "gen", arg |-> 0],
                       Requires |-> requires]) @@ heap
  /\ pc' = "converted"
  /\ UNCHANGED <<gRequires, aRequires, failing, noisy, perIteration, idx, requires,
                 cells, unit, done, sinkDiags, runCalls, gRunCalls, rootInvocations>>

\* ------------------------------------------------------------- the engine
\* The descriptors reachable from p through Requires.
RECURSIVE ReachableFrom(_)
ReachableFrom(S) ==
  LET next == S \cup UNION {Range(heap[p].Requires) : p \in S}
  IN IF next = S THEN S ELSE ReachableFrom(next)

Ready(d) ==
  /\ pc = "converted"
  /\ d \in ReachableFrom({Root})
  /\ d \notin DOMAIN done
  /\ Range(heap[d].Requires) \subseteq DOMAIN done

PrerequisiteFailed(d) == \E p \in Range(heap[d].Requires) : done[p].err # Nil

\* The pass the engine hands a descriptor's Run.
EnginePass(d) ==
  [Analyzer |-> d,
   unit |-> unit,
   ResultOf |-> [p \in Range(heap[d].Requires) |-> done[p].res],
   Report |-> "sink"]

\* A descriptor one of whose prerequisites failed is not run.
EngineSkip(d) ==
  /\ Ready(d)
  /\ PrerequisiteFailed(d)
  /\ done' = (d :> [res |-> Nil, err |-> "failed prerequisites"]) @@ done
  /\ UNCHANGED <<pc, gRequires, aRequires, failing, noisy, perIteration, idx,
                 requires, cells, heap, unit, sinkDiags, runCalls, gRunCalls,
                 rootInvocations>>

\* The engine runs a prerequisite: an author's analyzer, or a copy with the wrapper.
EngineRunPrerequisite(d) ==
  /\ Ready(d)
  /\ ~PrerequisiteFailed(d)
  /\ heap[d].Run.kind \in {"orig", "wrap"}
  /\ LET out == IF heap[d].Run.kind = "orig"
                THEN OrigRun(heap[d].Run.arg, EnginePass(d))
                ELSE WrapperRun(heap[d].Run.arg, EnginePass(d))
     IN /\ done' = (d :> [res |-> out.res, err |-> out.err]) @@ done
        /\ sinkDiags' = (d :> out.diags) @@ sinkDiags
        /\ runCalls' = [runCalls EXCEPT ![out.invoked] = @ + 1]
  /\ UNCHANGED <<pc, gRequires, aRequires, failing, noisy, perIteration, idx,
                 requires, cells, heap, unit, gRunCalls, rootInvocations>>

\* The engine runs the converted analyzer: its Run builds the Pass and calls g.Run,
\* which returns e.
EngineRunGenerator(e) ==
  /\ Ready(Root)
  /\ ~PrerequisiteFailed(Root)
  /\ LET out == ConvertedRun(EnginePass(Root), e)
     IN /\ gRunCalls' = gRunCalls \o out.calls
        /\ rootInvocations' = Append(rootInvocations, [unit |-> unit, ret |-> out.ret])
        /\ done' = (Root :> out.ret) @@ done
  /\ UNCHANGED <<pc, gRequires, aRequires, failing, noisy, perIteration, idx,
                 requires, cells, heap, unit, sinkDiags, runCalls>>

\* The engine goes on to the next package: its memo is per package.
EngineNextUnit ==
  /\ pc = "converted"
  /\ Root \in DOMAIN done
  /\ unit < MaxUnits
  /\ unit' = unit + 1
  /\ done' = <<>>
  /\ sinkDiags' = <<>>
  /\ runCalls' = [k \in Analyzers |-> 0]
  /\ UNCHANGED <<pc, gRequires, aRequires, failing, noisy, perIteration, idx,
                 requires, cells, heap, gRunCalls, rootInvocations>>

\* ------------------------------------------------- the adapter's properties
\* A pass an engine may hand the i-th returned prerequisite.
ProbePasses(d) ==
  {[Analyzer |-> d, unit |-> u, ResultOf |-> <<>>, Report |-> rep] :
     u \in 1..MaxUnits, rep \in {"sink", "noop"}}

\* C1: the returned Analyzer's Requires has as many entries as g.Requires, and
\* the i-th returned prerequisite's Run returns, on every pass, the (result,
\* error) pair g.Requires[i].Run returns on it.
C1_WrapperDelegatesToItsPrerequisite ==
  pc = "converted" =>
    /\ Len(heap[Root].Requires) = Len(gRequires)
    /\ \A i \in 1..Len(gRequires) :
         LET d == heap[Root].Requires[i]
         IN \A pass \in ProbePasses(d) :
              LET w == WrapperRun(heap[d].Run.arg, pass)
                  o == OrigRun(gRequires[i], pass)
              IN w.res = o.res /\ w.err = o.err

\* C2: inside g.Run the Pass's ResultOf has, for every g.Requires[i], an entry
\* keyed by g.Requires[i] whose value is the result that prerequisite produced.
C2_ResultOfKeyedByRequires ==
  \A j \in 1..Len(gRunCalls) :
    \A i \in 1..Len(gRequires) :
      /\ Orig(gRequires[i]) \in DOMAIN gRunCalls[j].pass.ResultOf
      /\ gRunCalls[j].pass.ResultOf[Orig(gRequires[i])] = ResultValue(gRequires[i])

\* C3: no run of a descriptor that runs only as a dependency of the converted
\* generator (directly required or reached through a prerequisite's Requires)
\* delivers a diagnostic to the sink.
C3_NoDiagnosticFromDependencyRuns ==
  \A d \in DOMAIN sinkDiags : d # Root => sinkDiags[d] = 0

\* C4: when g requires A and B and A requires B, the original Run of B is
\* invoked at most once for a unit.
C4_SharedPrerequisiteRunsOnce ==
  \A a, b \in Analyzers :
    (Range(gRequires) = {a, b} /\ Len(gRequires) = 2 /\ a # b /\ b \in Range(aRequires[a]))
      => runCalls[b] <= 1

\* C5: every invocation of the converted Run calls g.Run exactly once, with a
\* Pass built for that invocation whose Generator is g, and returns a nil
\* result with exactly the error g.Run returned.
C5_ConvertedRunReturnsGenRunError ==
  /\ Len(gRunCalls) = Len(rootInvocations)
  /\ \A j \in 1..Len(rootInvocations) :
       /\ j <= Len(gRunCalls)
       /\ gRunCalls[j].pass.Generator = GenPtr
       /\ gRunCalls[j].pass.unit = rootInvocations[j].unit
       /\ rootInvocations[j].ret = [res |-> Nil, err |-> gRunCalls[j].ret]

\* The converted Run was invoked for two packages, g.Run failing on one and
\* succeeding on the other.
C5_Witness ==
  /\ Len(rootInvocations) = 2
  /\ rootInvocations[1].ret.err # Nil
  /\ rootInvocations[2].ret.err = Nil
  /\ Len(gRequires) > 0


AdapterInit ==
  /\ pc = "start"
  /\ gRequires \in SeqsUpTo(Analyzers, MaxReq)
  /\ Cardinality(Range(gRequires)) = Len(gRequires)     \* "a set of analyzers"
  /\ aRequires \in [Analyzers -> {Ascending(S) : S \in SUBSET Analyzers}]
  /\ \A k \in Analyzers : \A j \in Range(aRequires[k]) : j > k
  /\ failing \in SUBSET Analyzers
  /\ noisy \in SUBSET Analyzers
  /\ perIteration \in BOOLEAN
  /\ idx = 0
  /\ requires = <<>>
  /\ cells = <<>>
  /\ heap = [p \in {Orig(k) : k \in Analyzers} |-> OrigDescriptor(p[2])]
  /\ unit = 1
  /\ done = <<>>
  /\ sinkDiags = <<>>
  /\ runCalls = [k \in Analyzers |-> 0]
  /\ gRunCalls = <<>>
  /\ rootInvocations = <<>>

AdapterNext ==
  \/ ToAnalyzerBegin
  \/ ToAnalyzerIterate
  \/ ToAnalyzerReturn
  \/ \E d \in DOMAIN heap : EngineSkip(d)
  \/ \E d \in DOMAIN heap : EngineRunPrerequisite(d)
  \/ \E e \in GenErrs : EngineRunGenerator(e)
  \/ EngineNextUnit

\* ------------------------------------------------- the harness: Run
VARIABLES
  hpc,          \* Run's position: "start", "running", "ran"
  outputFunc,   \* whether the author's generator defines Output (g.Output # nil)
  unitState,    \* per package: "idle", "running", "done"
  bufs,         \* the bytes.Buffers allocated by the Output wrapper: id -> text
  outputs,      \* Run's map outputs: package -> buffer id
  extSink,      \* per package, what the author's own writer received
  emitted,      \* per package, what the generator printed
  results       \* the Results Run returned

runVars == <<hpc, outputFunc, unitState, bufs, outputs, extSink, emitted>>

NPkgs == 2        \* packages of the fixture (one Result each)
MaxWrites == 2    \* Print calls of the generator per package
Pkgs == 1..NPkgs
Chunks == {"a", "b"}

\* A Result's Output: a nil *bytes.Buffer, or a buffer and its content.
NilBuf == [nil |-> TRUE, text |-> <<>>]
Buf(t) == [nil |-> FALSE, text |-> t]

\* The wrapper Run installs as g.Output (codegentest.go:44-52), called for pkg:
\* the buffer it allocates, whether it stores it in outputs, and the writers
\* the returned io.Writer writes to.
OutputWrapper(pkg) ==
  IF ~outputFunc
  THEN [buf |-> pkg, stored |-> TRUE, toExt |-> FALSE]
  ELSE [buf |-> pkg, stored |-> FALSE, toExt |-> TRUE]

\* outputs[pkg] read at codegentest.go:67,76: a missing key gives a nil pointer.
OutputOf(pkg) ==
  IF pkg \in DOMAIN outputs THEN Buf(bufs[outputs[pkg]]) ELSE NilBuf

\* codegentest.go:40-54: outputs := map{}; g copied; g.Output wrapped; ToAnalyzer.
RunBegin ==
  /\ hpc = "start"
  /\ outputs' = <<>>
  /\ hpc' = "running"
  /\ UNCHANGED <<outputFunc, unitState, bufs, extSink, emitted, results>>

\* The engine starts the converted analyzer on a package; the adapter asks
\* g.Output(pkg) for the package's writer.
UnitBegin(pkg) ==
  /\ hpc = "running"
  /\ unitState[pkg] = "idle"
  /\ LET w == OutputWrapper(pkg)
     IN /\ bufs' = (w.buf :> <<>>) @@ bufs
        /\ outputs' = IF w.stored THEN (pkg :> w.buf) @@ outputs ELSE outputs
  /\ unitState' = [unitState EXCEPT ![pkg] = "running"]
  /\ UNCHANGED <<hpc, outputFunc, extSink, emitted, results>>

\* The generator prints a chunk: pass.Print writes to the package's writer, the
\* buffer alone or io.MultiWriter(w, &buf).
UnitPrint(pkg, chunk) ==
  /\ hpc = "running"
  /\ unitState[pkg] = "running"
  /\ Len(emitted[pkg]) < MaxWrites
  /\ LET w == OutputWrapper(pkg)
     IN /\ bufs' = [bufs EXCEPT ![w.buf] = Append(@, chunk)]
        /\ extSink' = IF w.toExt THEN [extSink EXCEPT ![pkg] = Append(@, chunk)]
                      ELSE extSink
  /\ emitted' = [emitted EXCEPT ![pkg] = Append(@, chunk)]
  /\ UNCHANGED <<hpc, outputFunc, unitState, outputs, results>>

\* The generator's Run returns for the package.
UnitEnd(pkg) ==
  /\ hpc = "running"
  /\ unitState[pkg] = "running"
  /\ unitState' = [unitState EXCEPT ![pkg] = "done"]
  /\ UNCHANGED <<hpc, outputFunc, bufs, outputs, extSink, emitted, results>>

\* codegentest.go:55-80: analysistest.Run returned; one Result per package, in
\* the engine's order.
RunReturn ==
  /\ hpc = "running"
  /\ \A pkg \in Pkgs : unitState[pkg] = "done"
  /\ results' = [i \in 1..NPkgs |-> [Dir |-> i, Output |-> OutputOf(i)]]
  /\ hpc' = "ran"
  /\ UNCHANGED <<outputFunc, unitState, bufs, outputs, extSink, emitted>>

RunInit ==
  /\ hpc = "start"
  /\ outputFunc \in BOOLEAN
  /\ unitState = [pkg \in Pkgs |-> "idle"]
  /\ bufs = <<>>
  /\ outputs = <<>>
  /\ extSink = [pkg \in Pkgs |-> <<>>]
  /\ emitted = [pkg \in Pkgs |-> <<>>]

RunNext ==
  \/ RunBegin
  \/ \E pkg \in Pkgs : UnitBegin(pkg)
  \/ \E pkg \in Pkgs, chunk \in Chunks : UnitPrint(pkg, chunk)
  \/ \E pkg \in Pkgs : UnitEnd(pkg)
  \/ RunReturn

\* C6: every Result Run returns has a non-nil Output holding exactly the text
\* the generator emitted for its package, with and without an Output defined by
\* the author; with one, the author's writer received the same text.
C6_OutputHoldsEmittedText ==
  hpc = "ran" =>
    \A i \in 1..Len(results) :
      /\ ~results[i].Output.nil
      /\ results[i].Output.text = emitted[results[i].Dir]
      /\ outputFunc => extSink[results[i].Dir] = emitted[results[i].Dir]

\* ---------------------------------------------- the harness: Golden
VARIABLES
  files,        \* the golden file of each Result's Dir: [exists, content]
  gpc,          \* "idle", or "golden" inside a call of Golden
  gIdx,         \* the Result the loop of Golden is at
  calls         \* the calls of Golden so far, the last one possibly running

goldenVars == <<files, gpc, gIdx, calls>>

MaxGoldenCalls == 2   \* calls of Golden on the same results

NilText == <<"<nil>">>
OutputTexts == {<<>>, <<"a">>, <<"b">>}
GoldenContents == {<<"a">>, <<"a", "b">>}
Missing == [exists |-> FALSE, content |-> <<>>]
File(t) == [exists |-> TRUE, content |-> t]

\* The Results Run can return for the fixture.
RunResults ==
  {[i \in 1..NPkgs |-> [Dir |-> i, Output |-> NilBuf]]}
    \cup {[i \in 1..NPkgs |-> [Dir |-> i, Output |-> Buf(t[i])]] :
            t \in [1..NPkgs -> OutputTexts]}

\* (*bytes.Buffer).String, called at codegentest.go:119: "<nil>" on a nil buffer.
String(b) == IF b.nil THEN NilText ELSE b.text

\* Comparing the lengths only.
DiffersInLength(gf, got) == Len(gf) # Len(got)

\* cmp.Diff(string(gf), got) != "" (codegentest.go:123)
Differs(gf, got) == gf # got

\* Writing without truncating the file.
OverwriteAppending(old, got) == old \o got

\* os.Create, io.Copy, Close (codegentest.go:130-139): the file's content after.
Overwrite(old, got) == got

\* A t.Fatal that marks the failure and lets the caller go on.
FatalContinuing(call) == call

\* t.Fatal (codegentest.go:116, 132, 135, 138): the test stops.
Fatal(call) == [call EXCEPT !.status = "aborted"]

Texts == [i \in 1..Len(results) |-> String(results[i].Output)]
Cur == calls[Len(calls)]

\* golden's work on Result gIdx is over with `call` as the call's record.
GoldenStepDone(call) ==
  /\ calls' = [calls EXCEPT ![Len(calls)] = call]
  /\ IF call.status = "aborted"
     THEN gpc' = "idle" /\ gIdx' = gIdx
     ELSE gpc' = "golden" /\ gIdx' = gIdx + 1

\* Golden(t, results, update) is called.
GoldenBegin(update) ==
  /\ gpc = "idle"
  /\ Len(calls) < MaxGoldenCalls
  /\ calls' = Append(calls, [update |-> update, status |-> "running",
                             outcomes |-> <<>>, errlog |-> <<>>, written |-> {},
                             files0 |-> files, texts0 |-> Texts,
                             filesEnd |-> files, textsEnd |-> Texts])
  /\ gpc' = "golden"
  /\ gIdx' = 1
  /\ UNCHANGED <<files, results>>

InGolden == gpc = "golden" /\ gIdx <= Len(results)

\* golden: ioutil.ReadFile fails (codegentest.go:114-117).
goldenReadFails ==
  /\ InGolden
  /\ ~files[results[gIdx].Dir].exists
  /\ GoldenStepDone(Fatal([Cur EXCEPT !.outcomes = Append(@, "fatal_read")]))
  /\ UNCHANGED <<files, results>>

\* golden with update false (codegentest.go:119-128).
goldenCompare ==
  /\ InGolden
  /\ files[results[gIdx].Dir].exists
  /\ ~Cur.update
  /\ LET gf == files[results[gIdx].Dir].content
         got == String(results[gIdx].Output)
     IN /\ results' = [results EXCEPT ![gIdx].Output = Buf(got)]
        /\ IF Differs(gf, got)
           THEN GoldenStepDone([Cur EXCEPT !.outcomes = Append(@, "errorf"),
                                          !.errlog = Append(@, gIdx)])
           ELSE GoldenStepDone([Cur EXCEPT !.outcomes = Append(@, "ok")])
  /\ UNCHANGED files

\* golden with update true, os.Create failing (codegentest.go:130-133).
goldenCreateFails ==
  /\ InGolden
  /\ files[results[gIdx].Dir].exists
  /\ Cur.update
  /\ results' = [results EXCEPT ![gIdx].Output = Buf(String(results[gIdx].Output))]
  /\ GoldenStepDone(Fatal([Cur EXCEPT !.outcomes = Append(@, "fatal_create")]))
  /\ UNCHANGED files

\* golden with update true, io.Copy or Close failing after n chunks were
\* written to the truncated file (codegentest.go:134-139).
goldenCopyFails(n) ==
  /\ InGolden
  /\ files[results[gIdx].Dir].exists
  /\ Cur.update
  /\ LET got == String(results[gIdx].Output)
     IN /\ n <= Len(got)
        /\ results' = [results EXCEPT ![gIdx].Output = Buf(got)]
        /\ files' = [files EXCEPT ![results[gIdx].Dir] = File(SubSeq(got, 1, n))]
  /\ GoldenStepDone(Fatal([Cur EXCEPT !.outcomes = Append(@, "fatal_write"),
                                     !.written = @ \cup {results[gIdx].Dir}]))

\* golden with update true (codegentest.go:119-139).
goldenUpdate ==
  /\ InGolden
  /\ files[results[gIdx].Dir].exists
  /\ Cur.update
  /\ LET dir == results[gIdx].Dir
         got == String(results[gIdx].Output)
     IN /\ results' = [results EXCEPT ![gIdx].Output = Buf(got)]
        /\ files' = [files EXCEPT ![dir] = File(Overwrite(files[dir].content, got))]
        /\ GoldenStepDone([Cur EXCEPT !.outcomes = Append(@, "written"),
                                      !.written = @ \cup {dir}])

\* Golden's loop is over (codegentest.go:104-107).
GoldenReturn ==
  /\ gpc = "golden"
  /\ gIdx > Len(results)
  /\ calls' = [calls EXCEPT ![Len(calls)] =
                 [Cur EXCEPT !.status = "returned", !.filesEnd = files, !.textsEnd = Texts]]
  /\ gpc' = "idle"
  /\ UNCHANGED <<files, gIdx, results>>

GoldenInit ==
  /\ files \in [Pkgs -> {Missing} \cup {File(t) : t \in GoldenContents}]
  /\ gpc = "idle"
  /\ gIdx = 1
  /\ calls = <<>>

GoldenNext ==
  \/ \E update \in BOOLEAN : GoldenBegin(update)
  \/ goldenReadFails
  \/ goldenCompare
  \/ goldenCreateFails
  \/ \E n \in 0..MaxWrites : goldenCopyFails(n)
  \/ goldenUpdate
  \/ GoldenReturn

\* --------------------------------------------------- Golden's properties
\* The Results up to n whose text differs from the golden file's content, as
\* call c found them.
Mismatching(c, n) ==
  SelectSeq([i \in 1..n |-> i],
            LAMBDA i : c.files0[results[i].Dir].content # c.texts0[i])

AllReadable(c) == \A i \in 1..Len(results) : c.files0[results[i].Dir].exists

\* C7: a call of Golden with update = true that returns leaves every golden
\* file's content equal to exactly the captured output of its Result, and a
\* call with update = false that follows it reports no mismatch.
C7_UpdateThenCompareRoundTrip ==
  \A j \in 1..Len(calls) :
    (calls[j].update /\ calls[j].status = "returned") =>
      /\ \A i \in 1..Len(results) :
           calls[j].filesEnd[results[i].Dir] = File(calls[j].texts0[i])
      /\ (j < Len(calls) /\ ~calls[j + 1].update) =>
           /\ calls[j + 1].errlog = <<>>
           /\ calls[j + 1].status # "aborted"
           /\ \A k \in 1..Len(calls[j + 1].outcomes) : calls[j + 1].outcomes[k] = "ok"

\* An update replaced a longer golden file by a different output, and the
\* comparison that followed has returned.
C7_Witness ==
  /\ Len(calls) = 2
  /\ calls[1].update /\ calls[1].status = "returned"
  /\ ~calls[2].update /\ calls[2].status = "returned"
  /\ \E i \in 1..Len(results) :
       /\ Len(calls[1].files0[results[i].Dir].content) > Len(calls[1].texts0[i])
       /\ calls[1].texts0[i] # <<>>

\* C8: when the golden file of a Result cannot be read, Golden fails fatally
\* and stops, whatever update is: the file is not created, and no later
\* Result is compared or has its golden file written.
C8_ReadFailureAborts ==
  \A j \in 1..Len(calls) :
    \A k \in 1..Len(calls[j].outcomes) :
      calls[j].outcomes[k] = "fatal_read" =>
        /\ k = Len(calls[j].outcomes)
        /\ calls[j].status = "aborted"
        /\ ~files[results[k].Dir].exists
        /\ \A i \in k..Len(results) : results[i].Dir \notin calls[j].written
        /\ j = Len(calls) => gpc = "idle"

\* Two calls, one with update false and one with update true, each stopped by
\* an unreadable golden file before a Result whose golden file exists and
\* differs from its output.
C8_Witness ==
  /\ Len(calls) = 2
  /\ ~calls[1].update /\ calls[2].update
  /\ \A j \in 1..2 :
       /\ calls[j].status = "aborted"
       /\ calls[j].outcomes[Len(calls[j].outcomes)] = "fatal_read"
       /\ Len(calls[j].outcomes) < Len(results)
  /\ \E i \in (Len(calls[2].outcomes) + 1)..Len(results) :
       /\ files[results[i].Dir].exists
       /\ files[results[i].Dir].content # String(results[i].Output)

\* C9: with update = false and every golden file readable, Golden examines
\* every Result in order, reports one failure for each Result whose output
\* differs from its golden file and none for the others, never stops early,
\* changes no golden file and no Result's output text, and a second such call
\* has the same outcome for every Result.
C9_CompareReportsEachMismatchOnce ==
  \A j \in 1..Len(calls) :
    (~calls[j].update /\ AllReadable(calls[j])) =>
      /\ calls[j].status # "aborted"
      /\ \A k \in 1..Len(calls[j].outcomes) :
           calls[j].outcomes[k] =
             IF calls[j].files0[results[k].Dir].content # calls[j].texts0[k]
             THEN "errorf" ELSE "ok"
      /\ calls[j].errlog = Mismatching(calls[j], Len(calls[j].outcomes))
      /\ j = Len(calls) => (files = calls[j].files0 /\ Texts = calls[j].texts0)
      /\ calls[j].status = "returned" =>
           /\ Len(calls[j].outcomes) = Len(results)
           /\ calls[j].filesEnd = calls[j].files0
           /\ calls[j].textsEnd = calls[j].texts0
      /\ (/\ calls[j].status = "returned"
          /\ j < Len(calls)
          /\ ~calls[j + 1].update
          /\ calls[j + 1].status = "returned") =>
           /\ calls[j + 1].outcomes = calls[j].outcomes
           /\ calls[j + 1].errlog = calls[j].errlog

\* Two comparisons in a row have returned, a Result before the last one
\* differing from its golden file and another one being identical to it.
C9_Witness ==
  /\ Len(calls) = 2
  /\ \A j \in 1..2 : ~calls[j].update /\ calls[j].status = "returned"
  /\ \E k \in 1..(Len(results) - 1) : calls[1].outcomes[k] = "errorf"
  /\ \E k \in 1..Len(results) : calls[2].outcomes[k] = "ok"

\* ------------------------------------------------ singlegenerator.Main
VARIABLES
  mpc,        \* Main's position
  osArgs,     \* os.Args
  progArgs,   \* os.Args as the process was started
  flagArgs    \* g.Flags.Args() after Parse

mainVars == <<mpc, osArgs, progArgs, flagArgs>>

MaxArgs == 3    \* arguments after the program name

ProgName == "mockgen"
\* "-type" is a flag of the generator taking a value, "-bad" is not defined.
Tokens == {"-type", "-bad", "--", "a", "b"}

\* (*flag.FlagSet).Parse with ContinueOnError, called at codegentest.go:176:
\* the arguments left when parsing stops.
RECURSIVE FlagParse(_)
FlagParse(args) ==
  IF args = <<>> THEN <<>>
  ELSE LET s == Head(args)
       IN CASE s = "--" -> Tail(args)
            [] s = "-bad" -> Tail(args)
            [] s = "-type" -> IF Len(args) >= 2
                              THEN FlagParse(SubSeq(args, 3, Len(args)))
                              ELSE Tail(args)
            [] OTHER -> args

\* g.Flags.Parse(os.Args[1:])
MainParse ==
  /\ mpc = "start"
  /\ flagArgs' = FlagParse(Tail(osArgs))
  /\ mpc' = "parsed"
  /\ UNCHANGED <<osArgs, progArgs>>

\* os.Args = make([]string, g.Flags.NArg()+1)
MainMakeArgs ==
  /\ mpc = "parsed"
  /\ osArgs' = [j \in 1..(Len(flagArgs) + 1) |-> ""]
  /\ mpc' = "made"
  /\ UNCHANGED <<progArgs, flagArgs>>

\* os.Args[0] = os.Args[0]
MainAssignArg0 ==
  /\ mpc = "made"
  /\ osArgs' = [osArgs EXCEPT ![1] = osArgs[1]]
  /\ mpc' = "assigned"
  /\ UNCHANGED <<progArgs, flagArgs>>

\* copy(os.Args[1:], g.Flags.Args())
MainCopyArgs ==
  /\ mpc = "assigned"
  /\ osArgs' = [j \in 1..Len(osArgs) |-> IF j = 1 THEN osArgs[1] ELSE flagArgs[j - 1]]
  /\ mpc' = "rewritten"
  /\ UNCHANGED <<progArgs, flagArgs>>

\* if g.Flags.NArg() == 0 { g.Flags.Usage(); os.Exit(1) }
MainUsage ==
  /\ mpc = "rewritten"
  /\ Len(flagArgs) = 0
  /\ mpc' = "exit1"
  /\ UNCHANGED <<osArgs, progArgs, flagArgs>>

\* singlechecker.Main(a)
MainSingleChecker ==
  /\ mpc = "rewritten"
  /\ Len(flagArgs) # 0
  /\ mpc' = "singlechecker"
  /\ UNCHANGED <<osArgs, progArgs, flagArgs>>

MainInit ==
  /\ mpc = "start"
  /\ osArgs \in {<<ProgName>> \o rest : rest \in SeqsUpTo(Tokens, MaxArgs)}
  /\ progArgs = osArgs
  /\ flagArgs = <<>>

MainNext ==
  \/ MainParse
  \/ MainMakeArgs
  \/ MainAssignArg0
  \/ MainCopyArgs
  \/ MainUsage
  \/ MainSingleChecker

\* C10: once Main has rewritten os.Args, element 0 is the original program
\* name and the elements after it are the generator's non-flag arguments in
\* their order.
C10_ArgsKeepProgramName ==
  mpc \in {"rewritten", "singlechecker"} =>
    /\ osArgs[1] = progArgs[1]
    /\ Len(osArgs) = Len(flagArgs) + 1
    /\ \A j \in 1..Len(flagArgs) : osArgs[j + 1] = flagArgs[j]

\* ------------------------------------------------------ specifications
vars == <<adapterVars, runVars, results, goldenVars, mainVars>>

\* The parts of the program a specification leaves out stay as constructed.
AdapterIdle ==
  /\ pc = "off" /\ gRequires = <<>> /\ aRequires = [k \in Analyzers |-> <<>>]
  /\ failing = {} /\ noisy = {} /\ perIteration = TRUE /\ idx = 0
  /\ requires = <<>> /\ cells = <<>> /\ heap = <<>> /\ unit = 1 /\ done = <<>>
  /\ sinkDiags = <<>> /\ runCalls = [k \in Analyzers |-> 0]
  /\ gRunCalls = <<>> /\ rootInvocations = <<>>

RunIdle ==
  /\ hpc = "off" /\ outputFunc = FALSE /\ unitState = [pkg \in Pkgs |-> "idle"]
  /\ bufs = <<>> /\ outputs = <<>> /\ extSink = [pkg \in Pkgs |-> <<>>]
  /\ emitted = [pkg \in Pkgs |-> <<>>]

GoldenIdle ==
  /\ files = [pkg \in Pkgs |-> Missing] /\ gpc = "off" /\ gIdx = 1 /\ calls = <<>>

MainIdle ==
  /\ mpc = "off" /\ osArgs = <<ProgName>> /\ progArgs = <<ProgName>> /\ flagArgs = <<>>

\* The adapter: ToAnalyzer, then the engine running the converted analyzer.
Init == AdapterInit /\ RunIdle /\ results = <<>> /\ GoldenIdle /\ MainIdle

Next == AdapterNext /\ UNCHANGED <<runVars, results, goldenVars, mainVars>>

Spec == Init /\ [][Next]_vars

\* The harness's Run.
InitRun == RunInit /\ results = <<>> /\ AdapterIdle /\ GoldenIdle /\ MainIdle

NextRun == RunNext /\ UNCHANGED <<adapterVars, goldenVars, mainVars>>

SpecRun == InitRun /\ [][NextRun]_vars

\* Golden, called on the Results of a Run.
InitGolden == GoldenInit /\ results \in RunResults /\ AdapterIdle /\ RunIdle /\ MainIdle

NextGolden == GoldenNext /\ UNCHANGED <<adapterVars, runVars, mainVars>>

SpecGolden == InitGolden /\ [][NextGolden]_vars

\* singlegenerator.Main.
InitMain == MainInit /\ AdapterIdle /\ RunIdle /\ results = <<>> /\ GoldenIdle

NextMain == MainNext /\ UNCHANGED <<adapterVars, runVars, results, goldenVars>>

SpecMain == InitMain /\ [][NextMain]_vars

====
